---- MODULE Spec2Model ----
(***************************************************************************)
(* Model of the DBC editor document model (src/src/dbc_editor.py).         *)
(*                                                                         *)
(* The editor keeps two Python dicts, _original_data and _modified_data,   *)
(* each {'messages': [message dict, ...]}.  A message dict holds a         *)
(* reference to a Python list of signal dicts.  That list is the only      *)
(* object the editor ever mutates in place (append, item assignment, del,  *)
(* swap); message dicts, signal dicts, senders and receivers lists are     *)
(* only ever replaced as a whole.  The model therefore keeps the signal    *)
(* lists in a heap and lets a message record carry the address of its      *)
(* list, so that a shallow copy (dict(m)) shares the list and a deep copy  *)
(* does not.                                                               *)
(***************************************************************************)
EXTENDS Integers, Sequences, FiniteSets, TLC

VARIABLES
    file_path,        \* DBCEditor.file_path: "None" or a path
    original_data,    \* DBCEditor._original_data
    modified_data,    \* DBCEditor._modified_data
    heap,             \* address -> the signal list stored there
    files,            \* path -> content of the file at that path
    backups,          \* path -> content of the file at path + '.backup'
    lastOp,           \* the last call made on the editor and its outcome
                      \* (ret of a successful save: 1 if has_changes()
                      \* held when it was called, else 0)
    baseline,         \* the document as it was at the last load/create/save
    syncOp,           \* which operation set the baseline
    edits,            \* calls made since the baseline was set
    nops,             \* calls made so far
    recentFiles,      \* QSettings value 'recentFiles': the stored entries
    max_files,        \* RecentFilesManager._max_files
    clock,            \* int(time.time()) at the last reading
    current_file_path, \* DBCEditorWidget.current_file_path
    handler,          \* the last handler of the widget that ran, and how
    pc,               \* the statement a running save_dbc_file has reached
    save_path,        \* the local file_path of the running save_dbc_file
    entry             \* the editor as the running save_dbc_file found it

editor_vars == <<file_path, original_data, modified_data, heap, backups,
                 baseline, syncOp, edits>>

recent_vars == <<recentFiles, max_files, clock>>

widget_vars == <<current_file_path, handler>>

save_vars == <<pc, save_path, entry>>

\* What no method of the editor touches.
outside_vars == <<recent_vars, widget_vars, save_vars>>

vars == <<file_path, original_data, modified_data, heap, files, backups,
          lastOp, baseline, syncOp, edits, nops, recentFiles, max_files, clock,
          current_file_path, handler, pc, save_path, entry>>

(***************************************************************************)
(* Bounds of the model.                                                    *)
(***************************************************************************)
MaxMsgs == 2
MaxSigs == 3
MaxOps == 4
MaxCap == 2                     \* largest max_files a manager is built with
MaxHandlers == 3                \* calls made in a run of the widget

(***************************************************************************)
(* Program constants.                                                      *)
(***************************************************************************)
MaxStandardId == 2047           \* 0x7FF
DefaultMaxFiles == 50           \* RecentFilesManager.__init__, max_files

Addrs == 1..(2 * MaxMsgs)

NoPath == "None"
Paths == {"a.dbc", "B.DBC", "c.txt", "d.txt"}

(***************************************************************************)
(* Python values.  None for minimum/maximum is the empty tuple, a value v  *)
(* is <<v>>.  A dict that is None is [isNone |-> TRUE].                    *)
(***************************************************************************)
NoneData == [isNone |-> TRUE, messages |-> <<>>]
Data(msgs) == [isNone |-> FALSE, messages |-> msgs]

Sig(n, sb) ==
    [name |-> n, start_bit |-> sb, length |-> 8, is_signed |-> FALSE,
     scale |-> 1, offset |-> 0, minimum |-> <<>>, maximum |-> <<>>,
     unit |-> "", receivers |-> <<>>, comments |-> ""]

Msg(n, fid, len, sigs) ==
    [name |-> n, frame_id |-> fid, length |-> len, senders |-> <<>>,
     signals |-> sigs, comments |-> ""]

\* Records handed to add_message / update_message ('signals' is filled in
\* by the action) and to add_signal / update_signal.
\* MessageEditDialog.get_data (src/src/dbc_editor_ui.py, lines 174-178): the
\* frame id of the form, raised to 0x800 when 'Extended Frame' is selected
\* and the value is a standard id.
FormFrameId(value, extended) ==
    IF extended /\ value <= MaxStandardId THEN MaxStandardId + 1 ELSE value

FormMessage(n, value, extended) == Msg(n, FormFrameId(value, extended), 8, 0)

NewMessages == {FormMessage("A", 2047, FALSE), FormMessage("B", 256, TRUE)}
UpdateMessages == {Msg("A", 256, 4, 0), Msg("B", 256, 8, 0)}
NewSignals == {Sig("S", 0), Sig("T", 8)}
UpdateSignals == {Sig("S", 8)}

(***************************************************************************)
(* The external library's document, as held in a file.  A signal has a     *)
(* byte order and a message an explicit extended-frame flag; an absent     *)
(* comment is "None".                                                      *)
(***************************************************************************)
LibSig(n, sb, bo, c) ==
    [name |-> n, start |-> sb, length |-> 8, byte_order |-> bo,
     is_signed |-> FALSE, scale |-> 1, offset |-> 0, minimum |-> <<>>,
     maximum |-> <<>>, unit |-> "", receivers |-> <<>>, comment |-> c]

LibMsg(n, fid, ext, sigs) ==
    [name |-> n, frame_id |-> fid, is_extended_frame |-> ext, length |-> 8,
     senders |-> <<>>, comment |-> "None", signals |-> sigs]

Absent == [kind |-> "absent", messages |-> <<>>]
Truncated == [kind |-> "empty", messages |-> <<>>]
Partial == [kind |-> "partial", messages |-> <<>>]
Dbc(msgs) == [kind |-> "dbc", messages |-> msgs]

InitialDocs ==
    { <<LibMsg("A", 256, TRUE, <<LibSig("S", 0, "big_endian", "{note}")>>),
        LibMsg("B", 2048, TRUE, <<>>)>> }

(***************************************************************************)
(* Heap of signal lists.                                                   *)
(***************************************************************************)
Range(s) == {s[i] : i \in 1..Len(s)}

Refs(data) == {data.messages[i].signals : i \in 1..Len(data.messages)}

Live(o, m) == Refs(o) \cup Refs(m)

\* The lowest address no message of either copy refers to.
FreeAddr(o, m) == CHOOSE a \in Addrs \ Live(o, m) :
                      \A b \in Addrs \ Live(o, m) : a <= b

\* Lists no message refers to any more are reclaimed.
Collect(h, o, m) == [a \in Addrs |-> IF a \in Live(o, m) THEN h[a] ELSE <<>>]

\* A message with the content of its signal list in place of the address.
MsgVal(h, m) == [m EXCEPT !.signals = h[m.signals]]

\* The document a copy denotes: the list of messages with their signals.
DocVal(h, data) == [i \in 1..Len(data.messages) |-> MsgVal(h, data.messages[i])]

\* Python's list indexing: a negative index counts from the end.
PyIndex(i, n) == IF i < 0 THEN i + n ELSE i
InRange(i, n) == 0 <= i /\ i < n

\* A swap that leaves the list as it is.
SwapLost(s, i, j) == [s EXCEPT ![i] = s[i], ![j] = s[j]]

Swap(s, i, j) == [s EXCEPT ![i] = s[j], ![j] = s[i]]
\* A removal that always takes the last element.
RemoveLast(s, i) == SubSeq(s, 1, Len(s) - 1)

RemoveAt(s, i) == SubSeq(s, 1, i - 1) \o SubSeq(s, i + 1, Len(s))

(***************************************************************************)
(* _extract_comment_text, lines 486-500.  A signal's comments attribute is *)
(* the library's dict {None: text}, so its text goes through               *)
(* _extract_comment_from_dict (lines 502-524), which removes every '}'     *)
(* and strips surrounding quotes; a message's comment is a str and is      *)
(* returned as it is.  The texts of the model are "note", "{note}" and     *)
(* "'note'".                                                               *)
(***************************************************************************)
extract_comment_from_dict(text) ==
    CASE text = "{note}" -> "{note"
      [] text = "'note'" -> "note"
      [] OTHER -> text

extract_comment_text(comment_obj, is_dict) ==
    IF is_dict THEN extract_comment_from_dict(comment_obj) ELSE comment_obj

(***************************************************************************)
(* load_dbc_file, lines 61-114: flatten the library's object graph.        *)
(***************************************************************************)
LoadSignal(s) ==
    [name |-> s.name, start_bit |-> s.start, length |-> s.length,
     is_signed |-> s.is_signed, scale |-> s.scale, offset |-> s.offset,
     minimum |-> s.minimum, maximum |-> s.maximum, unit |-> s.unit,
     receivers |-> s.receivers,
     comments |-> IF s.comment = "None" THEN ""
                  ELSE extract_comment_text(s.comment, TRUE)]

LoadSignals(sigs) == [j \in 1..Len(sigs) |-> LoadSignal(sigs[j])]

LoadMessage(m, addr) ==
    [name |-> m.name, frame_id |-> m.frame_id, length |-> m.length,
     senders |-> m.senders, signals |-> addr,
     comments |-> IF m.comment = "None" THEN ""
                  ELSE extract_comment_text(m.comment, FALSE)]

(***************************************************************************)
(* save_dbc_file, lines 318-361: rebuild the library's object graph.       *)
(***************************************************************************)
SaveSignal(s) ==
    [name |-> s.name, start |-> s.start_bit, length |-> s.length,
     byte_order |-> "little_endian", is_signed |-> s.is_signed,
     scale |-> s.scale, offset |-> s.offset, minimum |-> s.minimum,
     maximum |-> s.maximum, unit |-> s.unit, receivers |-> s.receivers,
     comment |-> IF s.comments # "" THEN s.comments ELSE "None"]

\* A classification that takes 0x7FF for an extended id.
IsExtendedFromLimit(fid) == fid >= MaxStandardId

IsExtended(fid) == fid > MaxStandardId

SaveMessage(h, m) ==
    [name |-> m.name, frame_id |-> m.frame_id,
     is_extended_frame |-> IsExtended(m.frame_id), length |-> m.length,
     senders |-> m.senders,
     comment |-> IF m.comments # "" THEN m.comments ELSE "None",
     signals |-> [j \in 1..Len(h[m.signals]) |-> SaveSignal(h[m.signals][j])]]

SaveDoc(h, data) ==
    [i \in 1..Len(data.messages) |-> SaveMessage(h, data.messages[i])]

(***************************************************************************)
(* has_changes, lines 379-415: positional comparison with early return.    *)
(***************************************************************************)
RECURSIVE SignalsChanged(_, _, _)
SignalsChanged(os, ms, j) ==
    IF j > Len(os) THEN FALSE
    ELSE IF os[j] # ms[j] THEN TRUE
    ELSE SignalsChanged(os, ms, j + 1)

\* A comparison that also looks at the message length.
RECURSIVE MessagesChangedWithLength(_, _, _)
MessagesChangedWithLength(om, mm, i) ==
    IF i > Len(om) THEN FALSE
    ELSE IF \/ om[i].name # mm[i].name
            \/ om[i].frame_id # mm[i].frame_id
            \/ om[i].length # mm[i].length THEN TRUE
    ELSE IF Len(om[i].signals) # Len(mm[i].signals) THEN TRUE
    ELSE IF SignalsChanged(om[i].signals, mm[i].signals, 1) THEN TRUE
    ELSE MessagesChangedWithLength(om, mm, i + 1)

RECURSIVE MessagesChanged(_, _, _)
MessagesChanged(om, mm, i) ==
    IF i > Len(om) THEN FALSE
    ELSE IF om[i].name # mm[i].name \/ om[i].frame_id # mm[i].frame_id THEN TRUE
    ELSE IF Len(om[i].signals) # Len(mm[i].signals) THEN TRUE
    ELSE IF SignalsChanged(om[i].signals, mm[i].signals, 1) THEN TRUE
    ELSE MessagesChanged(om, mm, i + 1)

HasChangesIn(h, o, m) ==
    IF o.isNone \/ m.isNone THEN FALSE
    ELSE IF Len(o.messages) # Len(m.messages) THEN TRUE
    ELSE MessagesChanged(DocVal(h, o), DocVal(h, m), 1)

has_changes == HasChangesIn(heap, original_data, modified_data)

(***************************************************************************)
(* get_changes_summary, lines 428-484.  A Python dict built from a list    *)
(* keeps one entry per name: its position is that of the first element     *)
(* with the name, its value the last element with the name.                *)
(***************************************************************************)
NameSet(s) == {s[i].name : i \in 1..Len(s)}

RECURSIVE KeysFrom(_, _, _)
KeysFrom(s, i, seen) ==
    IF i > Len(s) THEN <<>>
    ELSE IF s[i].name \in seen THEN KeysFrom(s, i + 1, seen)
    ELSE <<s[i].name>> \o KeysFrom(s, i + 1, seen \cup {s[i].name})

Keys(s) == KeysFrom(s, 1, {})

RECURSIVE LastNamed(_, _, _)
LastNamed(s, n, i) == IF s[i].name = n THEN s[i] ELSE LastNamed(s, n, i - 1)

Lookup(s, n) == LastNamed(s, n, Len(s))

Qualified(msg_name, sig_name) == msg_name \o "." \o sig_name

QualifyAll(msg_name, names) ==
    [k \in 1..Len(names) |-> Qualified(msg_name, names[k])]

\* A report of every signal of the working message as added.
AddedSignalsUnfiltered(om, mm) == QualifyAll(mm.name, Keys(mm.signals))

AddedSignalsOf(om, mm) ==
    QualifyAll(mm.name, SelectSeq(Keys(mm.signals),
                           LAMBDA n : n \notin NameSet(om.signals)))

DeletedSignalsOf(om, mm) ==
    QualifyAll(mm.name, SelectSeq(Keys(om.signals),
                           LAMBDA n : n \notin NameSet(mm.signals)))

ModifiedSignalsOf(om, mm) ==
    QualifyAll(mm.name, SelectSeq(Keys(mm.signals),
                           LAMBDA n : /\ n \in NameSet(om.signals)
                                      /\ Lookup(mm.signals, n) # Lookup(om.signals, n)))

\* The loop of lines 445-471 over the names of the working copy; kind
\* selects which of the four lists is collected.
RECURSIVE SummaryLoop(_, _, _, _)
SummaryLoop(names, orig, mod, kind) ==
    IF names = <<>> THEN <<>>
    ELSE LET msg_name == Head(names)
             rest == SummaryLoop(Tail(names), orig, mod, kind)
         IN IF msg_name \notin NameSet(orig) THEN rest
            ELSE LET orig_msg == Lookup(orig, msg_name)
                     mod_msg == Lookup(mod, msg_name)
                 IN IF mod_msg = orig_msg THEN rest
                    ELSE (CASE kind = "message" -> <<msg_name>>
                            [] kind = "added" -> AddedSignalsOf(orig_msg, mod_msg)
                            [] kind = "deleted" -> DeletedSignalsOf(orig_msg, mod_msg)
                            [] kind = "modified" -> ModifiedSignalsOf(orig_msg, mod_msg))
                         \o rest

ChangesSummaryIn(h, o, m) ==
    IF ~HasChangesIn(h, o, m) THEN [has_changes |-> FALSE]
    ELSE LET orig == DocVal(h, o)
             mod == DocVal(h, m)
             names == Keys(mod)
         IN [has_changes |-> TRUE,
             added_messages |-> SelectSeq(names, LAMBDA n : n \notin NameSet(orig)),
             deleted_messages |-> SelectSeq(Keys(orig), LAMBDA n : n \notin NameSet(mod)),
             modified_messages |-> SummaryLoop(names, orig, mod, "message"),
             added_signals |-> SummaryLoop(names, orig, mod, "added"),
             deleted_signals |-> SummaryLoop(names, orig, mod, "deleted"),
             modified_signals |-> SummaryLoop(names, orig, mod, "modified")]

get_changes_summary == ChangesSummaryIn(heap, original_data, modified_data)

(***************************************************************************)
(* Bookkeeping shared by the actions.                                      *)
(***************************************************************************)
Call(op, ok, err, i, j, r, p, f) ==
    [op |-> op, ok |-> ok, err |-> err, idx |-> i, sidx |-> j, ret |-> r,
     path |-> p, fail |-> f]

\* The call set a new baseline (load, create, save).
Synced(op) ==
    /\ baseline' = Data(DocVal(heap', modified_data'))
    /\ syncOp' = op
    /\ edits' = 0

\* The call did not set a new baseline.
NotSynced ==
    /\ edits' = edits + 1
    /\ UNCHANGED <<baseline, syncOp>>

\* A call that raised before changing anything.  What it was called with is
\* not recorded: the editor is as it was before the call.
Raised(op, err, i, j, p, f) ==
    /\ lastOp' = Call(op, FALSE, err, -1, -1, -1, p, f)
    /\ NotSynced
    /\ UNCHANGED <<file_path, original_data, modified_data, heap, files, backups>>

(***************************************************************************)
(* RecentFilesManager (src/src/home_screen.py, lines 22-133).  Every       *)
(* method reads the stored entries with _load_entries and writes them back *)
(* with _save_entries.                                                     *)
(***************************************************************************)
\* Paths handed to the manager; "" is the empty string.
RecentInputs == {"", "a.dbc", "./a.dbc", "B.DBC", "c.txt"}

\* Lists handed to set_recent_files.
RecentLists == {<<>>, <<"", "c.txt">>, <<"a.dbc", "./a.dbc", "B.DBC", "c.txt">>}

\* os.path.normpath on the paths of the model.
normpath(p) == IF p = "./a.dbc" THEN "a.dbc" ELSE p

\* os.path.exists
exists(p) == p \in Paths /\ files[p].kind # "absent"

Entry(p, ts) == [path |-> p, last_opened |-> ts]

Max(a, b) == IF a >= b THEN a ELSE b
Min(a, b) == IF a <= b THEN a ELSE b

\* A cut that keeps one entry too many.
CappedOffByOne(entries) == SubSeq(entries, 1, Min(Len(entries), max_files + 1))

\* Lines 77 and 100: [: self._max_files]
Capped(entries) == SubSeq(entries, 1, Min(Len(entries), max_files))

\* _load_entries, lines 40-77, on a stored list.
load_entries ==
    Capped([i \in 1..Len(recentFiles) |->
               Entry(normpath(recentFiles[i].path), recentFiles[i].last_opened)])

\* The loop of lines 83-98: entries without a path are skipped, paths are
\* normalized, and of several entries with one path the first is kept.
RECURSIVE Unique(_, _)
Unique(entries, seen) ==
    IF entries = <<>> THEN <<>>
    ELSE LET e == Head(entries)
             p == normpath(e.path)
         IN IF e.path = "" \/ p \in seen THEN Unique(Tail(entries), seen)
            ELSE <<Entry(p, e.last_opened)>> \o Unique(Tail(entries), seen \cup {p})

\* _save_entries, lines 79-101: the value written to the store.
save_entries(entries) == Capped(Unique(entries, {}))

\* Lines 120 and 128: the entries of another path.
WithoutPath(entries, p) == SelectSeq(entries, LAMBDA e : e.path # p)

\* The new entry is put behind the others.
InsertedLast(entries, e) == Append(entries, e)

\* Line 121: entries.insert(0, ...)
Inserted(entries, e) == <<e>> \o entries

\* A call on the manager: the editor is left alone.
RecentCall(op, p, r) ==
    /\ nops < MaxOps
    /\ nops' = nops + 1
    /\ lastOp' = Call(op, TRUE, "", -1, -1, r, p, "")
    /\ UNCHANGED <<editor_vars, files, max_files, widget_vars, save_vars>>

\* tick: whether the clock has moved on to the next second since it was
\* last read.
add_file(path, tick) ==
    LET now == clock + tick
    IN /\ RecentCall("add_file", path, now)
       /\ IF path = ""
          THEN UNCHANGED <<recentFiles, clock>>
          ELSE /\ clock' = now
               /\ recentFiles' =
                      save_entries(Inserted(WithoutPath(load_entries, normpath(path)),
                                            Entry(normpath(path), now)))

remove_file(path) ==
    /\ RecentCall("remove_file", path, -1)
    /\ UNCHANGED clock
    /\ IF path = ""
       THEN UNCHANGED recentFiles
       ELSE recentFiles' = save_entries(WithoutPath(load_entries, normpath(path)))

\* Lines 110-112; the number of paths handed in is kept as the outcome.
set_recent_files(paths) ==
    /\ RecentCall("set_recent_files", NoPath, Len(paths))
    /\ UNCHANGED clock
    /\ recentFiles' =
           save_entries([i \in 1..Len(SelectSeq(paths, LAMBDA p : p # "")) |->
                            Entry(normpath(SelectSeq(paths, LAMBDA p : p # "")[i]), 0)])

prune_missing ==
    /\ RecentCall("prune_missing", NoPath, -1)
    /\ UNCHANGED clock
    /\ recentFiles' = save_entries(SelectSeq(load_entries, LAMBDA e : exists(e.path)))

\* The manager after __init__(max_files = m) on an empty store.
RecentInit(m) ==
    /\ recentFiles = <<>>
    /\ max_files = Max(1, m)
    /\ clock = 0

EditorInit ==
    /\ file_path = NoPath
    /\ original_data = NoneData
    /\ modified_data = NoneData
    /\ heap = [a \in Addrs |-> <<>>]
    /\ \E d \in InitialDocs :
           files = [p \in Paths |-> IF p = "a.dbc" THEN Dbc(d)
                                    ELSE IF p = "c.txt" THEN Dbc(<<>>)
                                    ELSE Absent]
    /\ backups = [p \in Paths |-> Absent]
    /\ lastOp = Call("init", TRUE, "", -1, -1, -1, NoPath, "")
    /\ baseline = NoneData
    /\ syncOp = "init"
    /\ edits = 0
    /\ nops = 0

\* DBCEditorWidget.__init__ (src/src/dbc_editor_ui.py, lines 446-450): no
\* current file; no handler has run.
WidgetInit ==
    /\ current_file_path = NoPath
    /\ handler = [name |-> "init", outcome |-> "done", prompted |-> FALSE]

\* No save_dbc_file is running.
NoEntry == [file_path |-> NoPath, original_data |-> NoneData,
            modified_data |-> NoneData, heap |-> <<>>]

SaveInit ==
    /\ pc = "idle"
    /\ save_path = NoPath
    /\ entry = NoEntry

Init == EditorInit /\ RecentInit(DefaultMaxFiles) /\ WidgetInit /\ SaveInit

\* The manager is built with any cap, 0 included.
InitRecent ==
    /\ EditorInit
    /\ \E m \in 0..MaxCap : RecentInit(m)
    /\ WidgetInit
    /\ SaveInit

\* A call of a method of the editor from outside the widget.
EditorCall ==
    /\ nops < MaxOps
    /\ nops' = nops + 1
    /\ UNCHANGED outside_vars

(***************************************************************************)
(* create_new_dbc, lines 28-44.                                            *)
(***************************************************************************)
DBCEditor_create_new_dbc ==
    /\ file_path' = NoPath
    /\ original_data' = Data(<<>>)
    /\ modified_data' = Data(<<>>)
    /\ heap' = [a \in Addrs |-> <<>>]
    /\ lastOp' = Call("create_new_dbc", TRUE, "", -1, -1, -1, NoPath, "")
    /\ Synced("create_new_dbc")
    /\ UNCHANGED <<files, backups>>

create_new_dbc == EditorCall /\ DBCEditor_create_new_dbc

(***************************************************************************)
(* load_dbc_file, lines 46-156.  parses: whether the library accepts a     *)
(* file of zero length.                                                    *)
(***************************************************************************)
\* Lines 54-55: file_path.lower().endswith('.dbc'), on the paths of the
\* model.
Extension(p) ==
    CASE p = "a.dbc" -> ".dbc"
      [] p = "B.DBC" -> ".DBC"
      [] OTHER -> ".txt"

Lower(str) == IF str = ".DBC" THEN ".dbc" ELSE str

\* A comparison of the extension as it is spelt.
HasDbcExtensionExact(p) == Extension(p) = ".dbc"

HasDbcExtension(p) == Lower(Extension(p)) = ".dbc"

\* Line 58: the library raises on the file at p.
ParseFails(p, parses) ==
    files[p].kind = "partial" \/ (files[p].kind = "empty" /\ ~parses)

\* Lines 57-156 when the library accepts the file; b is what the backup
\* files are when the caller is done (the editor's own method leaves them
\* alone).
Loaded(p, b) ==
    LET msgs == files[p].messages
        n == Len(msgs)
    IN /\ file_path' = p
       /\ original_data' = Data([i \in 1..n |-> LoadMessage(msgs[i], i)])
       /\ modified_data' = Data([i \in 1..n |-> LoadMessage(msgs[i], n + i)])
       /\ heap' = [a \in Addrs |->
                      IF a <= n THEN LoadSignals(msgs[a].signals)
                      ELSE IF a <= 2 * n THEN LoadSignals(msgs[a - n].signals)
                      ELSE <<>>]
       /\ lastOp' = Call("load_dbc_file", TRUE, "", -1, -1, -1, p, "")
       /\ Synced("load_dbc_file")
       /\ backups' = b
       /\ UNCHANGED files

DBCEditor_load_dbc_file(p, parses) ==
    /\ IF files[p].kind = "absent"
       THEN Raised("load_dbc_file", "DBCEditorError", -1, -1, p, "not_found")
       ELSE IF ~HasDbcExtension(p)
       THEN Raised("load_dbc_file", "DBCEditorError", -1, -1, p, "extension")
       ELSE IF ParseFails(p, parses)
       THEN /\ file_path' = p
            /\ lastOp' = Call("load_dbc_file", FALSE, "DBCEditorError", -1, -1, -1, p, "parse")
            /\ NotSynced
            /\ UNCHANGED <<original_data, modified_data, heap, files, backups>>
       ELSE Loaded(p, backups)

load_dbc_file(p, parses) == EditorCall /\ DBCEditor_load_dbc_file(p, parses)

(***************************************************************************)
(* Message operations, lines 161-224.                                      *)
(***************************************************************************)
Messages == modified_data.messages
NumMessages == Len(modified_data.messages)

\* The working copy after an operation replaced its message list by msgs
\* and the heap by h; nothing else of the editor changes.
Edited(op, i, j, r, msgs, h) ==
    /\ modified_data' = Data(msgs)
    /\ heap' = Collect(h, original_data, Data(msgs))
    /\ lastOp' = Call(op, TRUE, "", i, j, r, NoPath, "")
    /\ NotSynced
    /\ UNCHANGED <<file_path, original_data, files, backups>>

DBCEditor_add_message(message) ==
    /\ NumMessages < MaxMsgs
    /\ LET a == FreeAddr(original_data, modified_data)
       IN Edited("add_message", -1, -1, -1,
                 Append(Messages, [message EXCEPT !.signals = a]),
                 [heap EXCEPT ![a] = <<>>])

add_message(message) == EditorCall /\ DBCEditor_add_message(message)

\* share: the record handed in carries the signal list of the message it
\* replaces (the edit form hands back message_data['signals']); otherwise
\* it carries a list of its own with the same signals.
DBCEditor_update_message(idx, message, share) ==
    /\ IF modified_data.isNone \/ idx >= NumMessages
       THEN Raised("update_message", "DBCEditorError", idx, -1, NoPath, "")
       ELSE IF ~InRange(PyIndex(idx, NumMessages), NumMessages)
       THEN Raised("update_message", "IndexError", idx, -1, NoPath, "")
       ELSE LET k == PyIndex(idx, NumMessages) + 1
                old == Messages[k].signals
                a == IF share THEN old
                     ELSE FreeAddr(original_data,
                                   Data(RemoveAt(Messages, k)))
            IN Edited("update_message", idx, -1, -1,
                      [Messages EXCEPT ![k] = [message EXCEPT !.signals = a]],
                      [heap EXCEPT ![a] = heap[old]])

update_message(idx, message, share) == EditorCall /\ DBCEditor_update_message(idx, message, share)

\* The copy is put in front of its siblings.
InsertedFirst(siblings, copy) == <<copy>> \o siblings

\* Lines 196 and 261: the copy is appended to its siblings.
AppendCopy(siblings, copy) == Append(siblings, copy)

Suffixed(base_name, suffix) == base_name \o "_" \o ToString(suffix)

\* A name found without looking at the names in use.
UniqueNameFirst(base_name, existing_names, suffix) == Suffixed(base_name, suffix)

\* The loop of lines 189-194 and 254-259.
RECURSIVE UniqueName(_, _, _)
UniqueName(base_name, existing_names, suffix) ==
    IF Suffixed(base_name, suffix) \in existing_names
    THEN UniqueName(base_name, existing_names, suffix + 1)
    ELSE Suffixed(base_name, suffix)

\* A copy that refers to the signal list of its source.
SignalsShared(original, a) == original.signals

\* Line 184: the copy gets a list of its own, at address a.
SignalsCopied(original, a) == a

duplicate_message(idx) ==
    /\ EditorCall
    /\ IF modified_data.isNone \/ idx < 0 \/ idx >= NumMessages
       THEN Raised("duplicate_message", "DBCEditorError", idx, -1, NoPath, "")
       ELSE /\ NumMessages < MaxMsgs
            /\ LET original == Messages[idx + 1]
                   a == FreeAddr(original_data, modified_data)
                   new_message ==
                       [original EXCEPT
                           !.name = UniqueName(original.name, NameSet(Messages), 1),
                           !.signals = SignalsCopied(original, a)]
               IN Edited("duplicate_message", idx, -1, NumMessages,
                         AppendCopy(Messages, new_message),
                         [heap EXCEPT ![a] = heap[original.signals]])

\* A move up that only rejects a negative index: at index 0 the element is
\* exchanged with the one Python's index -1 designates.
move_message_up_wrapping(idx) ==
    /\ EditorCall
    /\ IF modified_data.isNone \/ idx < 0 \/ idx >= NumMessages
       THEN Raised("move_message_up", "DBCEditorError", idx, -1, NoPath, "")
       ELSE Edited("move_message_up", idx, -1, idx - 1,
                   Swap(Messages, PyIndex(idx - 1, NumMessages) + 1, idx + 1), heap)

move_message_up(idx) ==
    /\ EditorCall
    /\ IF modified_data.isNone \/ idx <= 0 \/ idx >= NumMessages
       THEN Raised("move_message_up", "DBCEditorError", idx, -1, NoPath, "")
       ELSE Edited("move_message_up", idx, -1, idx - 1,
                   Swap(Messages, idx, idx + 1), heap)

move_message_down(idx) ==
    /\ EditorCall
    /\ IF modified_data.isNone \/ idx < 0 \/ idx >= NumMessages - 1
       THEN Raised("move_message_down", "DBCEditorError", idx, -1, NoPath, "")
       ELSE Edited("move_message_down", idx, -1, idx + 1,
                   Swap(Messages, idx + 1, idx + 2), heap)

delete_message(idx) ==
    /\ EditorCall
    /\ IF modified_data.isNone \/ idx >= NumMessages
       THEN Raised("delete_message", "DBCEditorError", idx, -1, NoPath, "")
       ELSE IF ~InRange(PyIndex(idx, NumMessages), NumMessages)
       THEN Raised("delete_message", "IndexError", idx, -1, NoPath, "")
       ELSE Edited("delete_message", idx, -1, -1,
                   RemoveAt(Messages, PyIndex(idx, NumMessages) + 1), heap)

(***************************************************************************)
(* Signal operations, lines 226-299.  They act on the signal list the      *)
(* message refers to, in place.                                            *)
(***************************************************************************)
SignalsAddr(msg_idx) == Messages[PyIndex(msg_idx, NumMessages) + 1].signals
SignalsOf(msg_idx) == heap[SignalsAddr(msg_idx)]
NumSignals(msg_idx) == Len(SignalsOf(msg_idx))

\* The heap after an operation replaced the signal list of msg_idx by sigs.
EditedSignals(op, msg_idx, sig_idx, r, sigs) ==
    /\ heap' = [heap EXCEPT ![SignalsAddr(msg_idx)] = sigs]
    /\ lastOp' = Call(op, TRUE, "", msg_idx, sig_idx, r, NoPath, "")
    /\ NotSynced
    /\ UNCHANGED <<file_path, original_data, modified_data, files, backups>>

DBCEditor_add_signal(msg_idx, signal) ==
    /\ IF modified_data.isNone \/ msg_idx >= NumMessages
       THEN Raised("add_signal", "DBCEditorError", msg_idx, -1, NoPath, "")
       ELSE IF ~InRange(PyIndex(msg_idx, NumMessages), NumMessages)
       THEN Raised("add_signal", "IndexError", msg_idx, -1, NoPath, "")
       ELSE /\ NumSignals(msg_idx) < MaxSigs
            /\ EditedSignals("add_signal", msg_idx, -1, -1,
                             Append(SignalsOf(msg_idx), signal))

add_signal(msg_idx, signal) == EditorCall /\ DBCEditor_add_signal(msg_idx, signal)

DBCEditor_update_signal(msg_idx, sig_idx, signal) ==
    /\ IF modified_data.isNone \/ msg_idx >= NumMessages
       THEN Raised("update_signal", "DBCEditorError", msg_idx, sig_idx, NoPath, "")
       ELSE IF ~InRange(PyIndex(msg_idx, NumMessages), NumMessages)
       THEN Raised("update_signal", "IndexError", msg_idx, sig_idx, NoPath, "")
       ELSE IF sig_idx >= NumSignals(msg_idx)
       THEN Raised("update_signal", "DBCEditorError", msg_idx, sig_idx, NoPath, "")
       ELSE IF ~InRange(PyIndex(sig_idx, NumSignals(msg_idx)), NumSignals(msg_idx))
       THEN Raised("update_signal", "IndexError", msg_idx, sig_idx, NoPath, "")
       ELSE EditedSignals("update_signal", msg_idx, sig_idx, -1,
                [SignalsOf(msg_idx) EXCEPT
                    ![PyIndex(sig_idx, NumSignals(msg_idx)) + 1] = signal])

update_signal(msg_idx, sig_idx, signal) == EditorCall /\ DBCEditor_update_signal(msg_idx, sig_idx, signal)

duplicate_signal(msg_idx, sig_idx) ==
    /\ EditorCall
    /\ IF modified_data.isNone \/ msg_idx < 0 \/ msg_idx >= NumMessages
       THEN Raised("duplicate_signal", "DBCEditorError", msg_idx, sig_idx, NoPath, "")
       ELSE IF sig_idx < 0 \/ sig_idx >= NumSignals(msg_idx)
       THEN Raised("duplicate_signal", "DBCEditorError", msg_idx, sig_idx, NoPath, "")
       ELSE /\ NumSignals(msg_idx) < MaxSigs
            /\ LET signals == SignalsOf(msg_idx)
                   original == signals[sig_idx + 1]
                   new_signal ==
                       [original EXCEPT
                           !.name = UniqueName(original.name, NameSet(signals), 1)]
               IN EditedSignals("duplicate_signal", msg_idx, sig_idx, Len(signals),
                                AppendCopy(signals, new_signal))

move_signal_up(msg_idx, sig_idx) ==
    /\ EditorCall
    /\ IF modified_data.isNone \/ msg_idx < 0 \/ msg_idx >= NumMessages
       THEN Raised("move_signal_up", "DBCEditorError", msg_idx, sig_idx, NoPath, "")
       ELSE IF sig_idx <= 0 \/ sig_idx >= NumSignals(msg_idx)
       THEN Raised("move_signal_up", "DBCEditorError", msg_idx, sig_idx, NoPath, "")
       ELSE EditedSignals("move_signal_up", msg_idx, sig_idx, sig_idx - 1,
                          Swap(SignalsOf(msg_idx), sig_idx, sig_idx + 1))

move_signal_down(msg_idx, sig_idx) ==
    /\ EditorCall
    /\ IF modified_data.isNone \/ msg_idx < 0 \/ msg_idx >= NumMessages
       THEN Raised("move_signal_down", "DBCEditorError", msg_idx, sig_idx, NoPath, "")
       ELSE IF sig_idx < 0 \/ sig_idx >= NumSignals(msg_idx) - 1
       THEN Raised("move_signal_down", "DBCEditorError", msg_idx, sig_idx, NoPath, "")
       ELSE EditedSignals("move_signal_down", msg_idx, sig_idx, sig_idx + 1,
                          Swap(SignalsOf(msg_idx), sig_idx + 1, sig_idx + 2))

delete_signal(msg_idx, sig_idx) ==
    /\ EditorCall
    /\ IF modified_data.isNone \/ msg_idx >= NumMessages
       THEN Raised("delete_signal", "DBCEditorError", msg_idx, sig_idx, NoPath, "")
       ELSE IF ~InRange(PyIndex(msg_idx, NumMessages), NumMessages)
       THEN Raised("delete_signal", "IndexError", msg_idx, sig_idx, NoPath, "")
       ELSE IF sig_idx >= NumSignals(msg_idx)
       THEN Raised("delete_signal", "DBCEditorError", msg_idx, sig_idx, NoPath, "")
       ELSE IF ~InRange(PyIndex(sig_idx, NumSignals(msg_idx)), NumSignals(msg_idx))
       THEN Raised("delete_signal", "IndexError", msg_idx, sig_idx, NoPath, "")
       ELSE EditedSignals("delete_signal", msg_idx, sig_idx, -1,
                RemoveAt(SignalsOf(msg_idx),
                         PyIndex(sig_idx, NumSignals(msg_idx)) + 1))

(***************************************************************************)
(* save_dbc_file, lines 301-377.  fail names the step at which the file    *)
(* system or the library raises: "copy" (shutil.copy2), "rebuild" (the     *)
(* library's constructors), "open", "dump" (as_dbc_string, called with the *)
(* file already opened for writing), "write", "remove" (os.remove of the    *)
(* backup, which the call survives); "" is a run without failure.          *)
(***************************************************************************)
\* Line 368: [dict(m) for m in ...] copies each message dict, not the lists
\* the dicts refer to.
PromotedStale(msgs) == original_data

Promoted(msgs) == Data(msgs)

SaveFailures == {"", "copy", "rebuild", "open", "dump", "write"}

\* A cleanup that leaves every backup where it is.
cleanup_backup_file_kept(b, p, removes) == b

\* _cleanup_backup_file, lines 531-539: the backup of p is removed if it
\* exists; when os.remove raises (removes is false) the exception is logged
\* and the backup stays.
cleanup_backup_file(b, p, removes) ==
    IF b[p].kind # "absent" /\ removes THEN [b EXCEPT ![p] = Absent] ELSE b

SaveTarget(p) == IF p = NoPath THEN file_path ELSE p

SaveRaised(target, fail, f, b) ==
    /\ files' = f
    /\ backups' = b
    /\ lastOp' = Call("save_dbc_file", FALSE, "DBCEditorError", -1, -1, -1, target, fail)
    /\ NotSynced
    /\ UNCHANGED <<file_path, original_data, modified_data, heap>>

DBCEditor_save_dbc_file(p, fail) ==
    /\ IF SaveTarget(p) = NoPath
       THEN Raised("save_dbc_file", "DBCEditorError", -1, -1, NoPath, "path")
       ELSE LET target == SaveTarget(p)
                existed == files[target].kind # "absent"
                backed_up == IF existed
                             THEN [backups EXCEPT ![target] = files[target]]
                             ELSE backups
            IN /\ fail \in {"copy", "remove"} => existed
               /\ IF fail = "copy"
                  THEN \E b \in {backups[target], Partial} :
                           SaveRaised(target, "copy", files,
                                      [backups EXCEPT ![target] = b])
                  ELSE IF modified_data.isNone \/ fail = "rebuild"
                  THEN SaveRaised(target, "rebuild", files, backed_up)
                  ELSE IF fail = "open"
                  THEN SaveRaised(target, "open", files, backed_up)
                  ELSE IF fail = "dump"
                  THEN SaveRaised(target, "dump",
                                  [files EXCEPT ![target] = Truncated], backed_up)
                  ELSE IF fail = "write"
                  THEN SaveRaised(target, "write",
                                  [files EXCEPT ![target] = Partial], backed_up)
                  ELSE /\ files' = [files EXCEPT
                                       ![target] = Dbc(SaveDoc(heap, modified_data))]
                       /\ original_data' = Promoted(Messages)
                       /\ heap' = Collect(heap, Promoted(Messages), modified_data)
                       /\ backups' = cleanup_backup_file(backed_up, target,
                                                         fail # "remove")
                       /\ lastOp' = Call("save_dbc_file", TRUE, "", -1, -1,
                                        IF has_changes THEN 1 ELSE 0, target, fail)
                       /\ UNCHANGED <<file_path, modified_data>>
                       /\ Synced("save_dbc_file")

save_dbc_file(p, fail) == EditorCall /\ DBCEditor_save_dbc_file(p, fail)

(***************************************************************************)
(* reset_changes, lines 526-529.                                           *)
(***************************************************************************)
reset_changes ==
    /\ EditorCall
    /\ IF ~original_data.isNone
       THEN /\ modified_data' = Data(original_data.messages)
            /\ heap' = Collect(heap, original_data, Data(original_data.messages))
       ELSE UNCHANGED <<modified_data, heap>>
    /\ lastOp' = Call("reset_changes", TRUE, "", -1, -1, -1, NoPath, "")
    /\ NotSynced
    /\ UNCHANGED <<file_path, original_data, files, backups>>

(***************************************************************************)
(* cleanup_all_backups, lines 541-544.                                     *)
(***************************************************************************)
\* removes: whether os.remove succeeds.  The outcome kept of the call is
\* the number of files it removed.
cleanup_all_backups(removes) ==
    /\ EditorCall
    /\ backups' = IF file_path # NoPath
                  THEN cleanup_backup_file(backups, file_path, removes)
                  ELSE backups
    /\ lastOp' = Call("cleanup_all_backups", TRUE, "", -1, -1,
                      IF backups' # backups THEN 1 ELSE 0, file_path,
                      IF removes THEN "" ELSE "remove")
    /\ NotSynced
    /\ UNCHANGED <<file_path, original_data, modified_data, heap, files>>

(***************************************************************************)
(* save_dbc_file, lines 301-377, statement by statement.  pc names the     *)
(* statement the call is about to run:                                     *)
(*   "backup"   lines 313-316   copy the file to file_path + '.backup'     *)
(*   "rebuild"  lines 319-361   build the library's object graph           *)
(*   "open"     line 364        open the file for writing                  *)
(*   "write"    line 365        as_dbc_string and f.write, then close      *)
(*   "promote"  line 368        the working copy becomes the snapshot      *)
(*   "cleanup"  line 371        _cleanup_backup_file                       *)
(*   "return"   line 373        the call returns                           *)
(* A statement that raises ends the call in the handler of lines 375-377.  *)
(***************************************************************************)
\* An order in which the snapshot is promoted before the file is written.
StepAfterPromoteFirst(step) ==
    CASE step = "backup" -> "rebuild"
      [] step = "rebuild" -> "promote"
      [] step = "promote" -> "open"
      [] step = "open" -> "write"
      [] step = "write" -> "cleanup"
      [] step = "cleanup" -> "return"

\* An order in which the backup is removed as soon as it is made.
StepAfterCleanupFirst(step) ==
    CASE step = "backup" -> "cleanup"
      [] step = "cleanup" -> "rebuild"
      [] step = "rebuild" -> "open"
      [] step = "open" -> "write"
      [] step = "write" -> "promote"
      [] step = "promote" -> "return"

FirstStep == "backup"

\* The order of the statements of lines 312-373.
StepAfter(step) ==
    CASE step = "backup" -> "rebuild"
      [] step = "rebuild" -> "open"
      [] step = "open" -> "write"
      [] step = "write" -> "promote"
      [] step = "promote" -> "cleanup"
      [] step = "cleanup" -> "return"

\* A statement ran and the call goes on; only files and backups can have
\* been written.
Stepped ==
    /\ pc' = StepAfter(pc)
    /\ UNCHANGED <<lastOp, baseline, syncOp, edits, nops, save_path, entry,
                   file_path, recent_vars, widget_vars>>

\* Lines 375-377: the statement raised at 'fail'; the call ends.
StepRaised(fail) ==
    /\ pc' = "idle"
    /\ save_path' = NoPath
    /\ entry' = NoEntry
    /\ lastOp' = Call("save_dbc_file", FALSE, "DBCEditorError", -1, -1, -1,
                      save_path, fail)
    /\ NotSynced
    /\ UNCHANGED <<nops, file_path, recent_vars, widget_vars>>

\* Lines 306-310.
save_begin(p) ==
    /\ pc = "idle"
    /\ nops < MaxOps
    /\ nops' = nops + 1
    /\ UNCHANGED <<recent_vars, widget_vars>>
    /\ IF SaveTarget(p) = NoPath
       THEN /\ Raised("save_dbc_file", "DBCEditorError", -1, -1, NoPath, "path")
            /\ UNCHANGED save_vars
       ELSE /\ pc' = FirstStep
            /\ save_path' = SaveTarget(p)
            /\ entry' = [file_path |-> file_path,
                         original_data |-> original_data,
                         modified_data |-> modified_data, heap |-> heap]
            /\ UNCHANGED <<lastOp, baseline, syncOp, edits, file_path,
                           original_data, modified_data, heap, files, backups>>

\* Lines 313-316; fails: shutil.copy2 raises, having written nothing or a
\* part of the backup.
save_backup(fails) ==
    /\ pc = "backup"
    /\ UNCHANGED <<original_data, modified_data, heap, files>>
    /\ IF files[save_path].kind = "absent"
       THEN /\ ~fails
            /\ Stepped
            /\ UNCHANGED backups
       ELSE IF fails
       THEN /\ \E b \in {backups[save_path], Partial} :
                   backups' = [backups EXCEPT ![save_path] = b]
            /\ StepRaised("copy")
       ELSE /\ backups' = [backups EXCEPT ![save_path] = files[save_path]]
            /\ Stepped

\* Lines 319-361; fails: a constructor of the library raises.  Without a
\* working copy line 321 raises.
save_rebuild(fails) ==
    /\ pc = "rebuild"
    /\ UNCHANGED <<original_data, modified_data, heap, files, backups>>
    /\ IF modified_data.isNone \/ fails
       THEN StepRaised("rebuild")
       ELSE Stepped

\* Line 364: open(file_path, 'w') leaves a file of zero length.
save_open(fails) ==
    /\ pc = "open"
    /\ UNCHANGED <<original_data, modified_data, heap, backups>>
    /\ IF fails
       THEN /\ StepRaised("open")
            /\ UNCHANGED files
       ELSE /\ files' = [files EXCEPT ![save_path] = Truncated]
            /\ Stepped

\* Line 365; fail: "dump" (as_dbc_string raises), "write" (f.write raises
\* with a part of the text written) or "".
save_write(fail) ==
    /\ pc = "write"
    /\ UNCHANGED <<original_data, modified_data, heap, backups>>
    /\ IF fail = "dump"
       THEN /\ StepRaised("dump")
            /\ UNCHANGED files
       ELSE IF fail = "write"
       THEN /\ files' = [files EXCEPT ![save_path] = Partial]
            /\ StepRaised("write")
       ELSE /\ files' = [files EXCEPT
                            ![save_path] = Dbc(SaveDoc(heap, modified_data))]
            /\ Stepped

\* Line 368.
save_promote ==
    /\ pc = "promote"
    /\ original_data' = Promoted(Messages)
    /\ heap' = Collect(heap, Promoted(Messages), modified_data)
    /\ Stepped
    /\ UNCHANGED <<modified_data, files, backups>>

\* Line 371.
save_cleanup(removes) ==
    /\ pc = "cleanup"
    /\ backups' = cleanup_backup_file(backups, save_path, removes)
    /\ Stepped
    /\ UNCHANGED <<original_data, modified_data, heap, files>>

\* Line 373 and the return.
save_return ==
    /\ pc = "return"
    /\ pc' = "idle"
    /\ save_path' = NoPath
    /\ entry' = NoEntry
    /\ lastOp' = Call("save_dbc_file", TRUE, "", -1, -1,
                      IF HasChangesIn(entry.heap, entry.original_data,
                                      entry.modified_data) THEN 1 ELSE 0,
                      save_path, "")
    /\ UNCHANGED <<nops, file_path, original_data, modified_data, heap,
                   files, backups, recent_vars, widget_vars>>
    /\ Synced("save_dbc_file")

(***************************************************************************)
(* The edit forms (src/src/dbc_editor_ui.py): MessageEditDialog, lines     *)
(* 19-189, and SignalEditDialog, lines 191-440.  A form is the content of  *)
(* its fields; load_data fills them from a record, get_data reads them     *)
(* into the record handed to the editor.                                   *)
(***************************************************************************)
\* The form is accepted as it was opened.
Keep == "<unchanged>"

\* Texts typed into the name field.
NameTexts == {"", " ", " C "}

\* str.strip on the texts of the model.
strip(text) ==
    CASE text = " " -> ""
      [] text = " C " -> "C"
      [] OTHER -> text

\* A name is missing only if nothing at all was typed.
NameMissingUntrimmed(text) == text = ""

\* Lines 170-172 and 415-417: name = ...text().strip(); if not name: raise
\* ValueError.
NameMissing(text) == strip(text) = ""

\* QSpinBox.setValue: a value outside the range of the box becomes the
\* nearest bound.
SpinBox(value, lo, hi) == IF value < lo THEN lo ELSE IF value > hi THEN hi ELSE value

\* MessageEditDialog of no message: setup_ui, lines 32-139 (load_data does
\* nothing for an empty message_data).
NewMessageForm ==
    [name |-> "", frame_id |-> 0, length |-> 0, senders |-> <<>>,
     comments |-> "", extended |-> FALSE, cycle_time |-> 0,
     message_type |-> "Normal"]

\* MessageEditDialog.load_data, lines 152-166.
MessageForm(message_data) ==
    [NewMessageForm EXCEPT
        !.name = message_data.name,
        !.frame_id = SpinBox(message_data.frame_id, 0, 536870911),
        !.length = SpinBox(message_data.length, 0, 8),
        !.senders = message_data.senders,
        !.comments = message_data.comments,
        !.extended = message_data.frame_id > MaxStandardId]

\* MessageEditDialog.get_data, lines 168-189, once the name is there;
\* signals is message_data.get('signals', []).
MessageEditDialog_get_data(form, signals) ==
    [name |-> strip(form.name),
     frame_id |-> FormFrameId(form.frame_id, form.extended),
     length |-> form.length,
     senders |-> form.senders,
     comments |-> strip(form.comments),
     cycle_time |-> IF form.cycle_time > 0 THEN <<form.cycle_time>> ELSE <<>>,
     message_type |-> form.message_type,
     signals |-> signals]

\* SignalEditDialog of no signal: setup_ui, lines 204-341.
NewSignalForm ==
    [name |-> "", start_bit |-> 0, length |-> 1,
     byte_order |-> "little_endian", is_signed |-> FALSE, scale |-> 1,
     offset |-> 0, minimum |-> 0, maximum |-> 0, unit |-> "",
     receivers |-> <<>>, comments |-> ""]

\* Lines 381-392: a minimum or maximum that is None is shown as 0.0.
Shown(limit) == IF limit = <<>> THEN 0 ELSE SpinBox(limit[1], -1000000, 1000000)

\* SignalEditDialog.load_data, lines 343-396.
SignalForm(signal_data) ==
    [NewSignalForm EXCEPT
        !.name = signal_data.name,
        !.start_bit = SpinBox(signal_data.start_bit, 0, 63),
        !.length = SpinBox(signal_data.length, 1, 64),
        !.byte_order = IF "byte_order" \in DOMAIN signal_data
                       THEN signal_data.byte_order ELSE "little_endian",
        !.is_signed = signal_data.is_signed,
        !.scale = SpinBox(signal_data.scale, -1000000, 1000000),
        !.offset = SpinBox(signal_data.offset, -1000000, 1000000),
        !.minimum = Shown(signal_data.minimum),
        !.maximum = Shown(signal_data.maximum),
        !.unit = signal_data.unit,
        !.receivers = signal_data.receivers,
        !.comments = signal_data.comments]

\* SignalEditDialog.get_data, lines 413-440, once the name is there.
SignalEditDialog_get_data(form) ==
    [name |-> strip(form.name), start_bit |-> form.start_bit,
     length |-> form.length, byte_order |-> form.byte_order,
     is_signed |-> form.is_signed, scale |-> form.scale,
     offset |-> form.offset, minimum |-> <<form.minimum>>,
     maximum |-> <<form.maximum>>, unit |-> strip(form.unit),
     receivers |-> form.receivers, comments |-> strip(form.comments)]

\* The form after the user typed a name into it, or left it alone.
Typed(form, typed) == IF typed = Keep THEN form ELSE [form EXCEPT !.name = typed]

(***************************************************************************)
(* DBCEditorWidget (src/src/dbc_editor_ui.py, lines 442-1244): the         *)
(* handlers of the buttons.  A handler runs as a whole, the calls it makes *)
(* on the editor included.                                                 *)
(***************************************************************************)
Handler(name, outcome, prompted) ==
    [name |-> name, outcome |-> outcome, prompted |-> prompted]

\* A handler ran.
WidgetCall ==
    /\ nops < MaxHandlers
    /\ nops' = nops + 1
    /\ UNCHANGED <<recent_vars, save_vars>>

\* A handler returned without a call that changes the editor.
Returned(name, outcome, prompted) ==
    /\ handler' = Handler(name, outcome, prompted)
    /\ UNCHANGED <<editor_vars, files, lastOp, current_file_path>>

\* Lines 760-761 and 787-788: the condition of the 'Unsaved Changes'
\* prompt.
Prompts == has_changes /\ current_file_path # NoPath

\* Lines 708-722: the buttons that need a document are enabled.
has_data == ~modified_data.isNone

\* new_dbc_file, lines 758-783; reply: the answer to the prompt.
Widget_new_dbc_file(reply) ==
    /\ WidgetCall
    /\ IF Prompts /\ reply = "No"
       THEN Returned("new_dbc_file", "declined", TRUE)
       ELSE /\ DBCEditor_create_new_dbc
            /\ current_file_path' = NoPath
            /\ handler' = Handler("new_dbc_file", "done", Prompts)

\* load_dbc_path, lines 807-844, called by the handler 'name'.
LoadPath(name, prompted, p, parses, removes) ==
    IF p = ""
    THEN Returned(name, "error", prompted)
    ELSE IF files[p].kind = "absent" \/ ~HasDbcExtension(p)
    THEN Returned(name, "error", prompted)
    ELSE IF ParseFails(p, parses)
    THEN /\ DBCEditor_load_dbc_file(p, parses)
         /\ handler' = Handler(name, "error", prompted)
         /\ UNCHANGED current_file_path
    ELSE /\ Loaded(p, cleanup_backup_file(backups, p, removes))
         /\ current_file_path' = p
         /\ handler' = Handler(name, "done", prompted)

\* The route from the home screen (src/src/DBCUtility.py, lines 854-860).
Widget_load_dbc_path(p, parses, removes) ==
    /\ WidgetCall
    /\ LoadPath("load_dbc_path", FALSE, p, parses, removes)

\* load_dbc_file, lines 785-805; chosen: the path picked in the file
\* dialog, "" when it was cancelled.
Widget_load_dbc_file(reply, chosen, parses, removes) ==
    /\ WidgetCall
    /\ IF Prompts /\ reply = "No"
       THEN Returned("load_dbc_file", "declined", TRUE)
       ELSE IF chosen = ""
       THEN Returned("load_dbc_file", "cancelled", Prompts)
       ELSE LoadPath("load_dbc_file", Prompts, chosen, parses, removes)

\* What the handler made of the call it made on the editor.
Handled(name) ==
    handler' = Handler(name, IF lastOp'.ok THEN "done" ELSE "error", FALSE)

\* add_message, lines 923-942; accepted: the dialog was closed with OK;
\* typed: the name typed into it.
Widget_add_message(accepted, typed) ==
    /\ WidgetCall
    /\ has_data
    /\ IF ~accepted
       THEN Returned("add_message", "cancelled", FALSE)
       ELSE IF NameMissing(Typed(NewMessageForm, typed).name)
       THEN Returned("add_message", "validation", FALSE)
       ELSE /\ DBCEditor_add_message(
                   MessageEditDialog_get_data(Typed(NewMessageForm, typed), 0))
            /\ Handled("add_message")
            /\ UNCHANGED current_file_path

\* edit_message, lines 944-967, with current_row selected.  The record
\* handed to the editor carries the signal list of the message it replaces.
Widget_edit_message(current_row, accepted, typed) ==
    /\ WidgetCall
    /\ has_data
    /\ InRange(current_row, NumMessages)
    /\ LET message_data == Messages[current_row + 1]
           form == Typed(MessageForm(message_data), typed)
       IN IF ~accepted
          THEN Returned("edit_message", "cancelled", FALSE)
          ELSE IF NameMissing(form.name)
          THEN Returned("edit_message", "validation", FALSE)
          ELSE /\ DBCEditor_update_message(current_row,
                       MessageEditDialog_get_data(form, message_data.signals), TRUE)
               /\ Handled("edit_message")
               /\ UNCHANGED current_file_path

\* add_signal, lines 994-1019.
Widget_add_signal(current_row, accepted, typed) ==
    /\ WidgetCall
    /\ has_data
    /\ InRange(current_row, NumMessages)
    /\ IF ~accepted
       THEN Returned("add_signal", "cancelled", FALSE)
       ELSE IF NameMissing(Typed(NewSignalForm, typed).name)
       THEN Returned("add_signal", "validation", FALSE)
       ELSE /\ DBCEditor_add_signal(current_row,
                   SignalEditDialog_get_data(Typed(NewSignalForm, typed)))
            /\ Handled("add_signal")
            /\ UNCHANGED current_file_path

\* edit_signal, lines 1021-1048.
Widget_edit_signal(message_row, signal_row, accepted, typed) ==
    /\ WidgetCall
    /\ has_data
    /\ InRange(message_row, NumMessages)
    /\ InRange(signal_row, NumSignals(message_row))
    /\ LET signal_data == SignalsOf(message_row)[signal_row + 1]
           form == Typed(SignalForm(signal_data), typed)
       IN IF ~accepted
          THEN Returned("edit_signal", "cancelled", FALSE)
          ELSE IF NameMissing(form.name)
          THEN Returned("edit_signal", "validation", FALSE)
          ELSE /\ DBCEditor_update_signal(message_row, signal_row,
                                          SignalEditDialog_get_data(form))
               /\ Handled("edit_signal")
               /\ UNCHANGED current_file_path

\* Lines 1225-1227: the path picked gets the extension .dbc if it lacks it.
EnsureDbc(p) == IF HasDbcExtension(p) THEN p ELSE p \o ".dbc"

\* save_as, lines 1218-1240, called by the handler 'name'; chosen: the
\* path picked in the file dialog, "" when it was cancelled.
SaveAs(name, chosen, fail) ==
    IF chosen = ""
    THEN Returned(name, "cancelled", FALSE)
    ELSE /\ DBCEditor_save_dbc_file(EnsureDbc(chosen), fail)
         /\ Handled(name)
         /\ current_file_path' = IF lastOp'.ok THEN EnsureDbc(chosen)
                                 ELSE current_file_path

Widget_save_as(chosen, fail) ==
    /\ WidgetCall
    /\ has_data
    /\ SaveAs("save_as", chosen, fail)

\* save_changes, lines 1199-1216.
Widget_save_changes(chosen, fail) ==
    /\ WidgetCall
    /\ has_data
    /\ IF current_file_path = NoPath
       THEN SaveAs("save_changes", chosen, fail)
       ELSE /\ DBCEditor_save_dbc_file(current_file_path, fail)
            /\ Handled("save_changes")
            /\ UNCHANGED current_file_path

(***************************************************************************)
(* The calls a client can make.  Indices are drawn from one below the      *)
(* first to one past the last element.                                     *)
(***************************************************************************)
MsgIndices == -1..NumMessages

\* For the operations that reject every negative index outright.
CheckedIndices == 0..NumMessages

SigIndices(msg_idx) ==
    IF ~modified_data.isNone /\ InRange(msg_idx, NumMessages)
    THEN -1..NumSignals(msg_idx)
    ELSE {0}

\* Whether the record handed to update_message can carry a list of its own
\* that differs from the shared one in who refers to it.
ShareChoices(idx) ==
    IF /\ ~modified_data.isNone
       /\ InRange(PyIndex(idx, NumMessages), NumMessages)
       /\ SignalsAddr(idx) \in Refs(original_data)
    THEN BOOLEAN
    ELSE {TRUE}

Next ==
    \/ create_new_dbc
    \/ \E p \in Paths :
           \E parses \in IF files[p].kind = "empty" THEN BOOLEAN ELSE {TRUE} :
               load_dbc_file(p, parses)
    \/ \E m \in NewMessages : add_message(m)
    \/ \E i \in MsgIndices, m \in UpdateMessages :
           \E share \in ShareChoices(i) : update_message(i, m, share)
    \/ \E i \in CheckedIndices : duplicate_message(i)
    \/ \E i \in CheckedIndices : move_message_up(i)
    \/ \E i \in CheckedIndices : move_message_down(i)
    \/ \E i \in MsgIndices : delete_message(i)
    \/ \E i \in MsgIndices, s \in NewSignals : add_signal(i, s)
    \/ \E i \in MsgIndices : \E j \in SigIndices(i), s \in UpdateSignals :
           update_signal(i, j, s)
    \/ \E i \in CheckedIndices : \E j \in SigIndices(i) \ {-1} : duplicate_signal(i, j)
    \/ \E i \in CheckedIndices : \E j \in SigIndices(i) \ {-1} : move_signal_up(i, j)
    \/ \E i \in CheckedIndices : \E j \in SigIndices(i) \ {-1} : move_signal_down(i, j)
    \/ \E i \in MsgIndices : \E j \in SigIndices(i) : delete_signal(i, j)
    \/ \E p \in {NoPath, "B.DBC"}, fail \in SaveFailures :
           save_dbc_file(p, fail)
    \/ reset_changes
    \/ cleanup_all_backups(TRUE)

Spec == Init /\ [][Next]_vars

\* The calls made on the recent-files manager.
NextRecent ==
    \/ \E p \in RecentInputs, tick \in {0, 1} : add_file(p, tick)
    \/ \E p \in RecentInputs : remove_file(p)
    \/ \E paths \in RecentLists : set_recent_files(paths)
    \/ prune_missing

SpecRecent == InitRecent /\ [][NextRecent]_vars

\* os.remove can only fail where it is called: on a backup that exists.
RemoveChoices(p) ==
    IF p # NoPath /\ backups[p].kind # "absent" THEN BOOLEAN ELSE {TRUE}

\* shutil.copy2 can only fail where it is called: on a file that exists.
CopyChoices(p) ==
    IF p # NoPath /\ files[p].kind # "absent" THEN BOOLEAN ELSE {FALSE}

\* The calls made on the editor between loading, editing, saving and
\* shutdown, with save_dbc_file run statement by statement.
NextSave ==
    \/ pc = "idle" /\ create_new_dbc
    \/ \E p \in Paths :
           \E parses \in IF files[p].kind = "empty" THEN BOOLEAN ELSE {TRUE} :
               pc = "idle" /\ load_dbc_file(p, parses)
    \/ \E m \in NewMessages : pc = "idle" /\ add_message(m)
    \/ \E i \in CheckedIndices : pc = "idle" /\ delete_message(i)
    \/ \E removes \in RemoveChoices(file_path) :
           pc = "idle" /\ cleanup_all_backups(removes)
    \/ \E p \in {NoPath, "B.DBC"} : save_begin(p)
    \/ \E fails \in CopyChoices(save_path) : save_backup(fails)
    \/ \E fails \in BOOLEAN : save_rebuild(fails)
    \/ \E fails \in BOOLEAN : save_open(fails)
    \/ \E fail \in {"", "dump", "write"} : save_write(fail)
    \/ save_promote
    \/ \E removes \in RemoveChoices(save_path) : save_cleanup(removes)
    \/ save_return

SpecSave == Init /\ [][NextSave]_vars

\* Records without a name, handed to the editor by a client other than
\* the forms.
UnnamedMessage == Msg("", 256, 8, 0)
UnnamedSignal == Sig("", 0)

Replies == IF Prompts THEN {"Yes", "No"} ELSE {"Yes"}

Rows == 0..(NumMessages - 1)

SignalRows(message_row) == 0..(NumSignals(message_row) - 1)

\* What the user does with the widget, and direct calls of the editor with
\* records that have no name.
NextWidget ==
    \/ \E reply \in Replies : Widget_new_dbc_file(reply)
    \/ \E reply \in Replies, chosen \in {"", "a.dbc"} :
           Widget_load_dbc_file(reply, chosen, TRUE, TRUE)
    \/ \E p \in {"", "a.dbc", "B.DBC", "c.txt"} :
           \E parses \in IF p # "" /\ files[p].kind = "empty" THEN BOOLEAN ELSE {TRUE},
              removes \in RemoveChoices(IF p = "" THEN NoPath ELSE p) :
               Widget_load_dbc_path(p, parses, removes)
    \/ \E accepted \in BOOLEAN, typed \in NameTexts :
           Widget_add_message(accepted, typed)
    \/ \E row \in Rows, accepted \in BOOLEAN, typed \in NameTexts \cup {Keep} :
           Widget_edit_message(row, accepted, typed)
    \/ \E row \in Rows, accepted \in BOOLEAN, typed \in NameTexts :
           Widget_add_signal(row, accepted, typed)
    \/ \E row \in Rows : \E signal_row \in SignalRows(row) :
           \E accepted \in BOOLEAN, typed \in NameTexts \cup {Keep} :
               Widget_edit_signal(row, signal_row, accepted, typed)
    \/ \E chosen \in {"", "B.DBC"}, fail \in {"", "write"} :
           Widget_save_as(chosen, fail)
    \/ \E chosen \in {"", "B.DBC"}, fail \in {"", "write"} :
           Widget_save_changes(chosen, fail)
    \/ nops < MaxHandlers /\ add_message(UnnamedMessage)
    \/ \E row \in Rows :
           nops < MaxHandlers /\ update_message(row, UnnamedMessage, TRUE)
    \/ \E row \in Rows : nops < MaxHandlers /\ add_signal(row, UnnamedSignal)
    \/ \E row \in Rows : \E signal_row \in SignalRows(row) :
           nops < MaxHandlers /\ update_signal(row, signal_row, UnnamedSignal)

SpecWidget == Init /\ [][NextWidget]_vars

\* Messages duplicated and the operations on their signals.
NextDuplicate ==
    \/ load_dbc_file("a.dbc", TRUE)
    \/ \E i \in MsgIndices : delete_message(i)
    \/ \E i \in CheckedIndices : duplicate_message(i)
    \/ \E i \in MsgIndices, s \in NewSignals : add_signal(i, s)
    \/ \E i \in MsgIndices : \E j \in SigIndices(i), s \in UpdateSignals :
           update_signal(i, j, s)
    \/ \E i \in CheckedIndices : \E j \in SigIndices(i) \ {-1} : duplicate_signal(i, j)
    \/ \E i \in CheckedIndices : \E j \in SigIndices(i) \ {-1} : move_signal_up(i, j)
    \/ \E i \in CheckedIndices : \E j \in SigIndices(i) \ {-1} : move_signal_down(i, j)
    \/ \E i \in MsgIndices : \E j \in SigIndices(i) : delete_signal(i, j)

SpecDuplicate == Init /\ [][NextDuplicate]_vars

(***************************************************************************)
(* Properties.                                                             *)
(***************************************************************************)
BothExist == ~original_data.isNone /\ ~modified_data.isNone

Original == DocVal(heap, original_data)
Working == DocVal(heap, modified_data)

\* A step of the editor (every call counts one).
Called == nops' = nops + 1

MessageIndexOps == {"update_message", "delete_message", "duplicate_message",
                    "add_signal", "update_signal", "delete_signal",
                    "duplicate_signal"}
SignalIndexOps == {"update_signal", "delete_signal", "duplicate_signal"}
MoveMessageOps == {"move_message_up", "move_message_down"}
MutatingOps == MessageIndexOps \cup MoveMessageOps \cup
               {"add_message", "move_signal_up", "move_signal_down"}

\* A document reduced to what has_changes is specified to look at: the
\* length, senders and comment of every message are blanked.
Tracked(doc) ==
    [i \in 1..Len(doc) |->
        [doc[i] EXCEPT !.length = 0, !.senders = <<>>, !.comments = ""]]

\* C1: in every reachable state the working copy shares no mutable
\* substructure with the original snapshot (here: no signal list is referred
\* to by a message of both).
C1_NoSharedSubstructure ==
    BothExist => Refs(original_data) \cap Refs(modified_data) = {}

\* C2: when save_dbc_file on an existing file fails while rebuilding, while
\* producing the text or while writing, the file holds what it held before
\* the call and the backup holds the same content.
C2_FailedSaveLeavesFile ==
    [][(/\ Called
        /\ lastOp'.op = "save_dbc_file"
        /\ ~lastOp'.ok
        /\ lastOp'.fail \in {"rebuild", "dump", "write"}
        /\ files[lastOp'.path].kind # "absent")
       => /\ files'[lastOp'.path] = files[lastOp'.path]
          /\ backups'[lastOp'.path] = files[lastOp'.path]]_vars

\* C3: right after a successful save_dbc_file has_changes() is false and
\* the original snapshot equals the working copy.
C3_SaveSynchronizes ==
    (lastOp.op = "save_dbc_file" /\ lastOp.ok)
    => (~has_changes /\ BothExist /\ Original = Working)

\* C3 witness: a successful save of a document that had unsaved changes.
C3_Witness ==
    /\ lastOp.op = "save_dbc_file"
    /\ lastOp.ok
    /\ lastOp.ret = 1
    /\ NumMessages > 0

\* C4: the first operation after a successful save that changes the name or
\* frame id of a message, or its signals, makes has_changes() true.
C4_EditAfterSaveDetected ==
    (/\ syncOp = "save_dbc_file"
     /\ edits = 1
     /\ lastOp.ok
     /\ lastOp.op \in MutatingOps
     /\ Tracked(Working) # Tracked(baseline.messages))
    => has_changes

\* C5: an index-taking operation called with a message or signal index
\* outside 0..length-1 fails with DBCEditorError and leaves the working copy
\* as it was (so a call that succeeds had its indices in range, and a call
\* that fails raised DBCEditorError and changed nothing).
C5_InvalidIndexRejected ==
    [][(Called /\ lastOp'.op \in MessageIndexOps)
       => /\ lastOp'.ok =>
                /\ InRange(lastOp'.idx, NumMessages)
                /\ lastOp'.op \in SignalIndexOps
                       => InRange(lastOp'.sidx, NumSignals(lastOp'.idx))
          /\ ~lastOp'.ok =>
                /\ lastOp'.err = "DBCEditorError"
                /\ modified_data' = modified_data
                /\ heap' = heap]_vars

\* C6: load_dbc_file(path) directly followed by save_dbc_file(path) writes
\* a document equal to the loaded one in every message, signal and field.
C6_RoundTrip ==
    [][(/\ Called
        /\ lastOp.op = "load_dbc_file"
        /\ lastOp.ok
        /\ lastOp'.op = "save_dbc_file"
        /\ lastOp'.ok
        /\ lastOp'.path = lastOp.path)
       => files'[lastOp.path] = files[lastOp.path]]_vars

\* The positional difference C7 describes.
PositionalDifference(o, m) ==
    \/ Len(o) # Len(m)
    \/ \E i \in 1..Len(o) :
           \/ o[i].name # m[i].name
           \/ o[i].frame_id # m[i].frame_id
           \/ Len(o[i].signals) # Len(m[i].signals)
           \/ \E j \in 1..Len(o[i].signals) : o[i].signals[j] # m[i].signals[j]

\* C7: with an original snapshot and a working copy, has_changes() is true
\* exactly when the two lists differ in length or, at some index, in name,
\* frame id, number of signals or a signal record; a difference in message
\* length, senders or comment alone is no change.
C7_HasChangesPositional ==
    BothExist =>
        /\ has_changes <=> PositionalDifference(Original, Working)
        /\ Tracked(Original) = Tracked(Working) => ~has_changes

\* C7 witness: the two copies differ, in a message length only, and
\* has_changes() is false.
C7_Witness ==
    /\ BothExist
    /\ Original # Working
    /\ Tracked(Original) = Tracked(Working)
    /\ ~has_changes

\* The name-keyed differences C8 describes (a name stands for the last
\* record that bears it).
BothNames(o, m) == NameSet(o) \cap NameSet(m)
ExpectedAddedMessages(o, m) == NameSet(m) \ NameSet(o)
ExpectedDeletedMessages(o, m) == NameSet(o) \ NameSet(m)
ExpectedModifiedMessages(o, m) ==
    {n \in BothNames(o, m) : Lookup(m, n) # Lookup(o, n)}
SignalsOnlyIn(n, a, b) ==
    {Qualified(n, x) : x \in NameSet(a.signals) \ NameSet(b.signals)}
SignalsDiffering(n, a, b) ==
    {Qualified(n, x) : x \in {y \in BothNames(a.signals, b.signals) :
                                 Lookup(a.signals, y) # Lookup(b.signals, y)}}
ExpectedAddedSignals(o, m) ==
    UNION {SignalsOnlyIn(n, Lookup(m, n), Lookup(o, n)) : n \in BothNames(o, m)}
ExpectedDeletedSignals(o, m) ==
    UNION {SignalsOnlyIn(n, Lookup(o, n), Lookup(m, n)) : n \in BothNames(o, m)}
ExpectedModifiedSignals(o, m) ==
    UNION {SignalsDiffering(n, Lookup(o, n), Lookup(m, n)) : n \in BothNames(o, m)}

\* What a summary reports in a list; a list it does not carry reports
\* nothing.
Reported(summary, list) ==
    IF list \in DOMAIN summary THEN Range(summary[list]) ELSE {}

ReportsNameKeyedDifferences(summary, o, m) ==
    /\ Reported(summary, "added_messages") = ExpectedAddedMessages(o, m)
    /\ Reported(summary, "deleted_messages") = ExpectedDeletedMessages(o, m)
    /\ Reported(summary, "modified_messages") = ExpectedModifiedMessages(o, m)
    /\ Reported(summary, "added_signals") = ExpectedAddedSignals(o, m)
    /\ Reported(summary, "deleted_signals") = ExpectedDeletedSignals(o, m)
    /\ Reported(summary, "modified_signals") = ExpectedModifiedSignals(o, m)

SwappedAfterLoad ==
    /\ syncOp = "load_dbc_file"
    /\ edits = 1
    /\ lastOp.ok
    /\ lastOp.op \in MoveMessageOps
    /\ Messages[lastOp.idx + 1].name # Messages[lastOp.ret + 1].name

EmptySummary ==
    [has_changes |-> TRUE, added_messages |-> <<>>, deleted_messages |-> <<>>,
     modified_messages |-> <<>>, added_signals |-> <<>>,
     deleted_signals |-> <<>>, modified_signals |-> <<>>]

\* C9: after a swap of two messages of different names on a freshly loaded
\* document has_changes() is true and get_changes_summary() returns
\* has_changes true with every list empty.
C9_SwapDisagreement ==
    SwappedAfterLoad => (has_changes /\ get_changes_summary = EmptySummary)

\* C9 witness: such a swap has been made.
C9_Witness == SwappedAfterLoad /\ NumMessages >= 2

\* C10: after reset_changes() on a document with an original snapshot the
\* working copy equals the document as it was at the last load, create-new
\* or successful save, and has_changes() is false.
C10_ResetRestoresBaseline ==
    (lastOp.op = "reset_changes" /\ ~original_data.isNone)
    => (/\ ~modified_data.isNone
        /\ Working = baseline.messages
        /\ ~has_changes)

\* The siblings an operation on messages or on signals acted on, before and
\* after the step, and the index of the element it was given.
OnSignals(op) ==
    op \in {"add_signal", "update_signal", "delete_signal", "duplicate_signal",
            "move_signal_up", "move_signal_down"}
SiblingsBefore == IF OnSignals(lastOp'.op) THEN SignalsOf(lastOp'.idx) ELSE Working
SiblingsAfter ==
    IF OnSignals(lastOp'.op)
    THEN heap'[modified_data'.messages[PyIndex(lastOp'.idx, NumMessages) + 1].signals]
    ELSE DocVal(heap', modified_data')
GivenIndex == IF OnSignals(lastOp'.op) THEN lastOp'.sidx ELSE lastOp'.idx

DuplicateOps == {"duplicate_message", "duplicate_signal"}
Duplicated == Called /\ lastOp'.ok /\ lastOp'.op \in DuplicateOps

\* copy is base_k for the smallest k >= 1 such that base_k is not in names.
LowestUnusedSuffix(base, names, copy) ==
    \E k \in 1..(Cardinality(names) + 1) :
        /\ copy = Suffixed(base, k)
        /\ copy \notin names
        /\ \A j \in 1..(k - 1) : Suffixed(base, j) \in names

\* C11: duplicate_message and duplicate_signal name the copy base_k for the
\* smallest k >= 1 such that base_k is not the name of a sibling at the time
\* of the call; the name differs from that of every earlier sibling.
C11_DuplicateLowestSuffix ==
    [][Duplicated =>
          LowestUnusedSuffix(SiblingsBefore[GivenIndex + 1].name,
                             NameSet(SiblingsBefore),
                             SiblingsAfter[lastOp'.ret + 1].name)]_vars

\* C11 witness: a signal was duplicated while base_1 was taken, and the
\* copy is named base_2.
C11_Witness ==
    /\ lastOp.op = "duplicate_signal"
    /\ lastOp.ok
    /\ LET signals == SignalsOf(lastOp.idx)
       IN signals[lastOp.ret + 1].name = Suffixed(signals[lastOp.sidx + 1].name, 2)

MoveUpOps == {"move_message_up", "move_signal_up"}
MoveOps == {"move_message_up", "move_message_down",
            "move_signal_up", "move_signal_down"}
Moved == Called /\ lastOp'.ok /\ lastOp'.op \in MoveOps

\* A call that moves the first element up or the last element down.
BoundaryMove ==
    \/ move_message_up(0)
    \/ move_message_down(NumMessages - 1)
    \/ \E m \in 0..(NumMessages - 1) :
           \/ move_signal_up(m, 0)
           \/ move_signal_down(m, NumSignals(m) - 1)

\* C13: moving the first element up or the last element down fails and
\* leaves the working copy as it was; a successful move exchanges the
\* element with its neighbour, leaves every other element in place and
\* returns the element's new index.
C13_MoveAtBoundaryFails ==
    [][/\ BoundaryMove =>
             /\ ~lastOp'.ok
             /\ modified_data' = modified_data
             /\ heap' = heap
       /\ Moved =>
             LET before == SiblingsBefore
                 after == SiblingsAfter
                 i == GivenIndex
                 r == lastOp'.ret
             IN /\ r = IF lastOp'.op \in MoveUpOps THEN i - 1 ELSE i + 1
                /\ Len(after) = Len(before)
                /\ r \in 0..(Len(after) - 1)
                /\ after[r + 1] = before[i + 1]
                /\ after[i + 1] = before[r + 1]
                /\ \A k \in 1..Len(before) :
                       k \notin {i + 1, r + 1} => after[k] = before[k]]_vars

\* C13 witness: a move of a message was rejected on a list of two messages
\* (the calls made are the move of the first up, of the last down, and of
\* the index one past the end).
C13_Witness ==
    /\ lastOp.op \in {"move_message_up", "move_message_down"}
    /\ ~lastOp.ok
    /\ lastOp.err = "DBCEditorError"
    /\ NumMessages = 2

MessageListOps == {"add_message", "delete_message", "duplicate_message",
                   "move_message_up", "move_message_down"}
MessageListChanged == Called /\ lastOp'.ok /\ lastOp'.op \in MessageListOps

Occurrences(s, x) == Cardinality({k \in 1..Len(s) : s[k] = x})
SameBag(s, t) ==
    \A x \in Range(s) \cup Range(t) : Occurrences(s, x) = Occurrences(t, x)

\* C14: a successful add or duplicate of a message makes the list one
\* longer, a successful delete one shorter and without exactly the message
\* at the given index, a successful move keeps the length and the multiset
\* of messages; an index returned lies in 0..count-1 and designates the copy
\* or the moved message.
C14_MessageListConsistent ==
    [][MessageListChanged =>
          LET before == Working
              after == DocVal(heap', modified_data')
              op == lastOp'.op
              idx == PyIndex(lastOp'.idx, Len(before))
              ret == lastOp'.ret
          IN /\ op = "add_message" =>
                    /\ Len(after) = Len(before) + 1
                    /\ SubSeq(after, 1, Len(before)) = before
             /\ op = "duplicate_message" =>
                    /\ Len(after) = Len(before) + 1
                    /\ ret \in 0..(Len(after) - 1)
                    /\ [after[ret + 1] EXCEPT !.name = before[idx + 1].name]
                           = before[idx + 1]
             /\ op = "delete_message" =>
                    /\ Len(after) = Len(before) - 1
                    /\ \A k \in 1..Len(after) :
                           after[k] = IF k <= idx THEN before[k] ELSE before[k + 1]
             /\ op \in {"move_message_up", "move_message_down"} =>
                    /\ Len(after) = Len(before)
                    /\ SameBag(before, after)
                    /\ ret \in 0..(Len(after) - 1)
                    /\ after[ret + 1] = before[idx + 1]]_vars

\* C14 witness: the first of the two loaded messages was deleted and the
\* second is what remains.
C14_Witness ==
    /\ lastOp.op = "delete_message"
    /\ lastOp.ok
    /\ lastOp.idx = 0
    /\ syncOp = "load_dbc_file"
    /\ edits = 1
    /\ Len(baseline.messages) = 2
    /\ Working = Tail(baseline.messages)

\* C15: the first successful mutating operation after create_new_dbc or
\* load_dbc_file that alters the working copy makes has_changes() true.
C15_MutationAfterLoadDetected ==
    (/\ syncOp \in {"create_new_dbc", "load_dbc_file"}
     /\ edits = 1
     /\ lastOp.ok
     /\ lastOp.op \in MutatingOps
     /\ Working # baseline.messages)
    => has_changes

\* The paths that end in '.dbc' in some spelling of the letters.
EndsInDbc(p) == p \in {"a.dbc", "B.DBC"}

\* C16: load_dbc_file fails when no file exists at the path, and fails
\* when the file exists but the path does not end in '.dbc' (in any case of
\* the letters); existence is tested first, the parser is not reached, and
\* the tracked path, the original snapshot and the working copy stay as they
\* were.  A path of an existing file that ends in '.dbc' passes both tests.
C16_LoadRejectsMissingOrNonDbc ==
    [][(Called /\ lastOp'.op = "load_dbc_file") =>
          LET p == lastOp'.path
              missing == files[p].kind = "absent"
              rejected(why) ==
                  /\ ~lastOp'.ok
                  /\ lastOp'.err = "DBCEditorError"
                  /\ lastOp'.fail = why
                  /\ UNCHANGED <<file_path, original_data, modified_data, heap>>
          IN /\ missing => rejected("not_found")
             /\ (~missing /\ ~EndsInDbc(p)) => rejected("extension")
             /\ (~missing /\ EndsInDbc(p)) =>
                    lastOp'.fail \notin {"not_found", "extension"}]_vars

\* C16 witness: a load of a path with no file and no '.dbc' ending was
\* rejected as not found, with a document loaded before.
C16_Witness ==
    /\ lastOp.op = "load_dbc_file"
    /\ ~lastOp.ok
    /\ lastOp.path = "d.txt"
    /\ lastOp.fail = "not_found"
    /\ file_path = "a.dbc"
    /\ NumMessages > 0

UniqueNames(s) == \A i, j \in 1..Len(s) : i # j => s[i].name # s[j].name

\* C17: in every reachable working copy no two messages have the same name
\* and no two signals of one message have the same name.
C17_SiblingNamesUnique ==
    ~modified_data.isNone =>
        /\ UniqueNames(Working)
        /\ \A i \in 1..Len(Working) : UniqueNames(Working[i].signals)

\* C18: the stored recent-files list has at most max_files entries,
\* max_files is at least 1, and no two entries have the same normalized
\* path.
C18_RecentListCappedAndDeduplicated ==
    /\ max_files >= 1
    /\ Len(recentFiles) <= max_files
    /\ \A i, j \in 1..Len(recentFiles) :
           i # j => normpath(recentFiles[i].path) # normpath(recentFiles[j].path)

\* C18 witness: set_recent_files was handed more paths than the cap and
\* the list is full.
C18_Witness ==
    /\ lastOp.op = "set_recent_files"
    /\ lastOp.ret > max_files
    /\ Len(recentFiles) = max_files

MostRecentFirst(entries) ==
    \A i, j \in 1..Len(entries) :
        i < j => entries[i].last_opened >= entries[j].last_opened

\* C19: add_file(p) with a non-empty p puts the normalized p first with
\* the current timestamp, followed by the other entries in their earlier
\* order, cut at the end to the cap; add_file and remove_file with an empty
\* path change nothing; the list is ordered from the latest timestamp to
\* the earliest.
C19_AddFilePutsFirst ==
    [][/\ (Called /\ lastOp'.op \in {"add_file", "remove_file"}) =>
             IF lastOp'.path = ""
             THEN recentFiles' = recentFiles
             ELSE lastOp'.op = "add_file" =>
                     LET p == normpath(lastOp'.path)
                         others == SelectSeq(recentFiles, LAMBDA e : e.path # p)
                     IN /\ clock' >= clock
                        /\ recentFiles'[1] = Entry(p, clock')
                        /\ Tail(recentFiles') =
                               SubSeq(others, 1, Min(Len(others), max_files - 1))
       /\ MostRecentFirst(recentFiles')]_vars

\* C19 witness: a file already in a full list was opened again under
\* another spelling of its path and stands first with the latest timestamp.
C19_Witness ==
    /\ lastOp.op = "add_file"
    /\ lastOp.path = "./a.dbc"
    /\ max_files = 2
    /\ recentFiles = <<Entry("a.dbc", 3), Entry("B.DBC", 2)>>

\* Frame ids a user can enter in the message form.
FormValues == {0, 256, 2047, 2048}

\* C20: a saved message is written as an extended frame exactly when its
\* frame id is greater than 0x7FF, whatever its other fields; the message
\* form hands out an id above 0x7FF whenever 'Extended Frame' is selected
\* (0x800 for an id of at most 0x7FF) and the id entered otherwise.
C20_ExtendedIffAboveStandard ==
    /\ (lastOp.op = "save_dbc_file" /\ lastOp.ok) =>
           LET written == files[lastOp.path].messages
           IN \A i \in 1..Len(written) :
                  /\ written[i].frame_id = Working[i].frame_id
                  /\ written[i].is_extended_frame <=> written[i].frame_id > 2047
    /\ \A v \in FormValues :
           /\ FormFrameId(v, TRUE) = IF v <= 2047 THEN 2048 ELSE v
           /\ FormFrameId(v, FALSE) = v

\* C20 witness: a file was saved with a message of frame id 0x7FF written
\* as a standard frame and a message of frame id 0x800 written as an
\* extended frame.
C20_Witness ==
    /\ lastOp.op = "save_dbc_file"
    /\ lastOp.ok
    /\ LET written == files[lastOp.path].messages
       IN /\ \E i \in 1..Len(written) :
                 written[i].frame_id = 2047 /\ ~written[i].is_extended_frame
          /\ \E i \in 1..Len(written) :
                 written[i].frame_id = 2048 /\ written[i].is_extended_frame

\* A step is a call of cleanup_all_backups.
CleanupCalled == \E removes \in BOOLEAN : cleanup_all_backups(removes)

\* What cleanup_all_backups leaves alone: the DBC files, the original
\* snapshot, the working copy and the tracked path.
CleanupFrame ==
    UNCHANGED <<files, original_data, modified_data, heap, file_path>>

\* C21 as stated: cleanup_all_backups deletes the backup of the tracked
\* path when there is one, does nothing when no path is tracked, never
\* raises, and changes neither the DBC files nor the original snapshot, the
\* working copy or the tracked path.
C21_CleanupDeletesBackup ==
    [][CleanupCalled
       => /\ lastOp'.ok
          /\ backups' = IF file_path # NoPath
                        THEN [backups EXCEPT ![file_path] = Absent]
                        ELSE backups
          /\ CleanupFrame]_vars

\* C21 as amended: cleanup_all_backups deletes the backup of the tracked
\* path when there is one and os.remove succeeds; when os.remove raises the
\* backup stays; it does nothing when no path is tracked, never raises, and
\* changes neither the DBC files nor the original snapshot, the working copy
\* or the tracked path.
C21_CleanupDeletesBackupUnlessRemoveFails ==
    [][\A removes \in BOOLEAN :
           cleanup_all_backups(removes)
           => /\ lastOp'.ok
              /\ backups' = IF file_path # NoPath /\ removes
                            THEN [backups EXCEPT ![file_path] = Absent]
                            ELSE backups
              /\ CleanupFrame]_vars

\* C21 witness: cleanup_all_backups removed the backup a failed save had
\* left beside the tracked file.
C21_Witness ==
    /\ lastOp.op = "cleanup_all_backups"
    /\ lastOp.ret = 1
    /\ file_path # NoPath
    /\ backups[file_path].kind = "absent"
    /\ files[file_path].kind \in {"empty", "partial"}

\* The text of the working copy is in the file the running save writes.
TextWritten == files[save_path] = Dbc(SaveDoc(heap, modified_data))

\* The order of the statements of a save_dbc_file: the file is opened for
\* writing with its content already copied to the backup, the snapshot is
\* promoted with the text written, and the backup is removed with the
\* snapshot promoted.
SaveStepsInOrder ==
    /\ (save_open(FALSE) /\ files[save_path].kind # "absent")
           => backups[save_path] = files[save_path]
    /\ save_promote => TextWritten
    /\ (\E removes \in BOOLEAN : save_cleanup(removes))
           => (TextWritten /\ original_data = Promoted(Messages))

\* C22 as stated: in a save_dbc_file the copy to the backup completes
\* before the file is opened for writing, the working copy is promoted only
\* after the text has been written, the backup is deleted only after that,
\* and when the call returns no backup of the path exists.
C22_SaveOrderNoBackupLeft ==
    [][/\ SaveStepsInOrder
       /\ save_return => backups'[save_path].kind = "absent"]_vars

\* C22 as amended: the same order of steps; when the call returns no backup
\* of the path exists unless os.remove raised on it (the call then returns
\* all the same, after the promotion, and the backup holds what the file
\* held before the call).
C22_SaveOrderBackupRemovedUnlessRemoveFails ==
    [][/\ SaveStepsInOrder
       /\ \A removes \in BOOLEAN :
              save_cleanup(removes)
              => backups' = IF removes
                            THEN [backups EXCEPT ![save_path] = Absent]
                            ELSE backups
       /\ save_return => (TextWritten /\ original_data = Promoted(Messages))]_vars

\* C22 witness: a save of a changed document over an existing file has
\* returned, the file holds the new text and no backup is left.
C22_Witness ==
    /\ pc = "idle"
    /\ lastOp.op = "save_dbc_file"
    /\ lastOp.ok
    /\ lastOp.ret = 1
    /\ lastOp.path = "a.dbc"
    /\ files["a.dbc"] = Dbc(SaveDoc(heap, modified_data))
    /\ backups["a.dbc"].kind = "absent"

\* A step is the handler of an accepted form for messages or signals whose
\* name field, trimmed, is empty.
BlankFormAccepted ==
    \E typed \in NameTexts \cup {Keep} :
        \/ /\ strip(Typed(NewMessageForm, typed).name) = ""
           /\ \/ Widget_add_message(TRUE, typed)
              \/ \E row \in Rows : Widget_add_signal(row, TRUE, typed)
        \/ \E row \in Rows :
               /\ strip(Typed(MessageForm(Messages[row + 1]), typed).name) = ""
               /\ Widget_edit_message(row, TRUE, typed)
        \/ \E row \in Rows : \E signal_row \in SignalRows(row) :
               /\ strip(Typed(SignalForm(SignalsOf(row)[signal_row + 1]),
                              typed).name) = ""
               /\ Widget_edit_signal(row, signal_row, TRUE, typed)

\* A step is a call of the editor itself with a record that has no name;
\* the call stores the record.
UnnamedStored ==
    /\ add_message(UnnamedMessage)
           => (lastOp'.ok /\ Messages'[NumMessages + 1].name = "")
    /\ \A row \in Rows :
           /\ update_message(row, UnnamedMessage, TRUE)
                  => (lastOp'.ok /\ Messages'[row + 1].name = "")
           /\ add_signal(row, UnnamedSignal)
                  => (lastOp'.ok
                      /\ heap'[SignalsAddr(row)] =
                             Append(SignalsOf(row), UnnamedSignal))
           /\ \A signal_row \in SignalRows(row) :
                  update_signal(row, signal_row, UnnamedSignal)
                  => (lastOp'.ok
                      /\ heap'[SignalsAddr(row)][signal_row + 1] = UnnamedSignal)

\* C23: in the add and edit forms for messages and signals a name that is
\* empty after trimming is rejected with a validation error, no operation
\* of the document model is applied and the working copy is unchanged; the
\* document model itself accepts a record without a name.
C23_BlankNameRejectedByForm ==
    [][/\ BlankFormAccepted
           => /\ handler'.outcome = "validation"
              /\ UNCHANGED <<original_data, modified_data, heap, lastOp>>
       /\ UnnamedStored]_vars

\* C23 witness: the signal form rejected a blank name while the working
\* copy holds a message without a name that the editor accepted.
C23_Witness ==
    /\ handler.name = "edit_signal"
    /\ handler.outcome = "validation"
    /\ \E i \in 1..NumMessages : Messages[i].name = ""

\* The file does not hold a complete serialized document.
Incomplete(f) == f.kind \in {"empty", "partial"}

\* C24: whenever the file at a path does not hold a complete document, the
\* backup of the path holds the last complete content of the path: when a
\* complete file becomes incomplete the backup holds what the file held,
\* and while the file stays incomplete that backup is neither deleted nor
\* overwritten.
C24_BackupKeptWhileIncomplete ==
    [][\A p \in Paths :
           /\ (files[p].kind = "dbc" /\ Incomplete(files'[p]))
                  => backups'[p] = files[p]
           /\ (Incomplete(files[p]) /\ Incomplete(files'[p])
                  /\ backups[p].kind = "dbc")
                  => backups'[p] = backups[p]]_vars

\* C25: a load_dbc_file that fails, for whatever reason, leaves the tracked
\* path, the original snapshot and the working copy as they were.
C25_FailedLoadLeavesEditor ==
    [][\A p \in Paths, parses \in BOOLEAN :
           (load_dbc_file(p, parses) /\ ~lastOp'.ok)
           => UNCHANGED <<file_path, original_data, modified_data, heap>>]_vars

\* A step ends a save_dbc_file with an exception: at the path check, or at
\* a later statement.
SaveFailed ==
    \/ (\E p \in Paths \cup {NoPath} : save_begin(p)) /\ pc' = "idle"
    \/ pc # "idle" /\ pc' = "idle" /\ ~lastOp'.ok

\* The editor as it was when the save_dbc_file that ends was called.
AtEntry == IF pc = "idle"
           THEN [file_path |-> file_path, original_data |-> original_data,
                 modified_data |-> modified_data, heap |-> heap]
           ELSE entry

\* C26: when save_dbc_file fails, at whatever step, the original snapshot,
\* the working copy and the tracked path are what they were when it was
\* called, and has_changes() and get_changes_summary() return what they
\* returned then.
C26_FailedSaveLeavesEditor ==
    [][SaveFailed
       => /\ file_path' = AtEntry.file_path
          /\ original_data' = AtEntry.original_data
          /\ modified_data' = AtEntry.modified_data
          /\ heap' = AtEntry.heap
          /\ has_changes' = HasChangesIn(AtEntry.heap, AtEntry.original_data,
                                         AtEntry.modified_data)
          /\ get_changes_summary' =
                 ChangesSummaryIn(AtEntry.heap, AtEntry.original_data,
                                  AtEntry.modified_data)]_vars

\* C26 witness: a save of a changed document failed while writing, and the
\* changes are still reported.
C26_Witness ==
    /\ pc = "idle"
    /\ lastOp.op = "save_dbc_file"
    /\ ~lastOp.ok
    /\ lastOp.fail = "write"
    /\ has_changes
    /\ get_changes_summary.deleted_messages # <<>>

\* C27: when a save_dbc_file to a given path returns normally, that path is
\* the editor's tracked path, the one a later save_dbc_file() without
\* argument and cleanup_all_backups use.
C27_SavedPathIsTracked ==
    [][(save_return /\ lastOp'.ok) => file_path' = save_path]_vars

\* A handler that replaces the document ran: New, Load, or the load from
\* the home screen.
ReplacingHandler ==
    \/ \E reply \in {"Yes", "No"} : Widget_new_dbc_file(reply)
    \/ \E reply \in {"Yes", "No"}, chosen \in {"", "a.dbc"} :
           Widget_load_dbc_file(reply, chosen, TRUE, TRUE)
    \/ \E p \in {"a.dbc", "B.DBC"}, parses \in BOOLEAN, removes \in BOOLEAN :
           Widget_load_dbc_path(p, parses, removes)

\* C28: a working copy with unsaved changes is replaced by new_dbc_file,
\* load_dbc_file or load_dbc_path only after the user answered Yes to the
\* 'Unsaved Changes' prompt, also when the document was never saved.
C28_UnsavedChangesNeverReplacedUnasked ==
    [][(has_changes /\ ReplacingHandler /\ handler'.outcome = "done")
       => handler'.prompted]_vars

\* The document was loaded by the last call and nothing was done to it.
FreshlyLoaded == lastOp.op = "load_dbc_file" /\ lastOp.ok /\ ~has_changes

\* The edit form of a message or of a signal was opened and accepted with
\* every field as it was shown.
AcceptedUnchanged ==
    \E row \in 0..(MaxMsgs - 1) :
        \/ Widget_edit_message(row, TRUE, Keep)
        \/ \E signal_row \in 0..(MaxSigs - 1) :
               Widget_edit_signal(row, signal_row, TRUE, Keep)

\* C29: on a freshly loaded document, accepting the edit form of a message
\* or a signal without changing a field stores a record equal to the one
\* that was there (same fields, same values, absent minimum and maximum
\* still absent) and has_changes() stays false.
C29_UnchangedFormIsNoOp ==
    [][(FreshlyLoaded /\ AcceptedUnchanged)
       => /\ DocVal(heap', modified_data') = DocVal(heap, modified_data)
          /\ ~has_changes']_vars

SignalOps == {"add_signal", "update_signal", "delete_signal",
              "duplicate_signal", "move_signal_up", "move_signal_down"}

\* The message a successful call acted on, as an index from the front.
Target(call, n) == PyIndex(call.idx, n)

\* C30: after duplicate_message(i), an operation on the signals of the copy
\* leaves the source message as it was, and an operation on the signals of
\* the source leaves the copy as it was.
C30_DuplicateIndependentOfSource ==
    [][(/\ lastOp.op = "duplicate_message"
        /\ lastOp.ok
        /\ nops' = nops + 1
        /\ lastOp'.op \in SignalOps)
       => \A k \in {lastOp.idx, lastOp.ret} :
              (lastOp'.ok /\ Target(lastOp', NumMessages) = k)
              \/ MsgVal(heap', modified_data'.messages[k + 1])
                     = MsgVal(heap, modified_data.messages[k + 1])]_vars

\* C30 witness: the last call changed the signals of the copy "A_1", which
\* now differ from those of its source "A".
C30_Witness ==
    /\ lastOp.op \in SignalOps
    /\ lastOp.ok
    /\ \E i, j \in 1..NumMessages :
           /\ Messages[i].name = "A"
           /\ Messages[j].name = "A_1"
           /\ Target(lastOp, NumMessages) + 1 = j
           /\ heap[Messages[i].signals] # heap[Messages[j].signals]

====
